---- MODULE Spec2Model ----
(***************************************************************************)
(* Model of src/main.rs: the SystemData access declarations (Read, Write,  *)
(* Query, (), tuples), the permission sets derived from them, and the      *)
(* SystemWrapper adapter that exposes a System to legion's scheduler       *)
(* through the Runnable trait (name, reads, writes, prepare,               *)
(* accesses_archetypes, command_buffer_mut, run_unsafe).                   *)
(*                                                                         *)
(* legion::world::Permissions<T> keeps three disjoint groups of            *)
(* identities: read-only, read/write ("shared") and write-only.            *)
(*   push_read(x)  grants read access,                                     *)
(*   push(x)       grants read AND write access,                           *)
(*   push_write(x) grants write access,                                    *)
(*   add(other)    pushes every identity of other with its own kind,       *)
(*   reads()       is read-only + read/write,                              *)
(*   writes()      is read/write + write-only.                             *)
(* The groups are modelled as sets: the claims speak of reads() and        *)
(* writes() as sets, and nothing in main.rs depends on the slice order.    *)
(***************************************************************************)
EXTENDS Integers, Sequences, FiniteSets, TLC

VARIABLES
    systems,     \* SysIds -> NoSystem or the SystemWrapper built by new()
    world,       \* the World: its archetypes, a sequence of component layouts
    resources,   \* the Resources collection: the identities that have a value
    last         \* the latest Runnable/World call and what it returned

vars == <<systems, world, resources, last>>

----------------------------------------------------------------------------
(* Identities *)

\* TestResourceA, TestResourceB
ResourceIds == {"TestResourceA", "TestResourceB"}

\* Position, Velocity
ComponentIds == {"Position", "Velocity"}

\* The one World main() creates.
TheWorld == "world"

----------------------------------------------------------------------------
(* Bounds *)

\* adapters added to the schedule
NumSystems == 2

\* archetypes the world may hold
MaxArchetypes == 3

\* largest tuple arity impl_data! is invoked for
MaxArity == 4

\* largest arity of a tuple nested inside another one
MaxInner == 2

SysIds == 1..NumSystems

----------------------------------------------------------------------------
(* legion::world::Permissions *)

\* Permissions::default()
PermDefault == [ro |-> {}, rw |-> {}, wo |-> {}]

\* Permissions::push_read
PushRead(p, x) ==
    IF x \in p.wo THEN [p EXCEPT !.wo = @ \ {x}, !.rw = @ \cup {x}]
    ELSE IF x \in p.ro \cup p.rw THEN p
    ELSE [p EXCEPT !.ro = @ \cup {x}]

\* push as a write-only grant
PushDropsRead(p, x) ==
    IF x \in p.ro THEN [p EXCEPT !.ro = @ \ {x}, !.wo = @ \cup {x}]
    ELSE IF x \in p.rw \cup p.wo THEN p
    ELSE [p EXCEPT !.wo = @ \cup {x}]

\* push that leaves an identity it already holds as it is
PushKeepsKind(p, x) ==
    IF x \in p.ro \cup p.rw \cup p.wo THEN p
    ELSE [p EXCEPT !.rw = @ \cup {x}]

\* Permissions::push
Push(p, x) ==
    IF x \in p.ro THEN [p EXCEPT !.ro = @ \ {x}, !.rw = @ \cup {x}]
    ELSE IF x \in p.wo THEN [p EXCEPT !.wo = @ \ {x}, !.rw = @ \cup {x}]
    ELSE IF x \in p.rw THEN p
    ELSE [p EXCEPT !.rw = @ \cup {x}]

\* Permissions::push_write
PushWrite(p, x) ==
    IF x \in p.ro THEN [p EXCEPT !.ro = @ \ {x}, !.rw = @ \cup {x}]
    ELSE IF x \in p.rw \cup p.wo THEN p
    ELSE [p EXCEPT !.wo = @ \cup {x}]

RECURSIVE PushAll(_, _, _)
\* one drain loop of Permissions::add: push every identity of xs with kind k
PushAll(p, xs, k) ==
    IF xs = {} THEN p
    ELSE LET x == CHOOSE y \in xs : TRUE
             q == CASE k = "ro" -> PushRead(p, x)
                    [] k = "rw" -> Push(p, x)
                    [] OTHER    -> PushWrite(p, x)
         IN  PushAll(q, xs \ {x}, k)

\* add that assigns instead of merging
AddReplaces(p, other) == other

\* Permissions::add
Add(p, other) ==
    PushAll(PushAll(PushAll(p, other.ro, "ro"), other.rw, "rw"), other.wo, "wo")

\* Permissions::reads
Reads(p) == p.ro \cup p.rw

\* Permissions::writes
Writes(p) == p.rw \cup p.wo

----------------------------------------------------------------------------
(* SystemData declarations *)

Unit == [kind |-> "Unit"]
Read(t) == [kind |-> "Read", id |-> t]
Write(t) == [kind |-> "Write", id |-> t]
\* Query<V, F>: the view's elements and the components the filter requires
Query(v, f) == [kind |-> "Query", view |-> v, has |-> f]
Tuple(es) == [kind |-> "Tuple", elems |-> es]

\* an element of a Query's view
Entity == [kind |-> "Entity"]

RECURSIVE ViewPermissions(_)
\* V::requires_permissions() of a view given as the sequence of its elements
ViewPermissions(v) ==
    IF v = <<>> THEN PermDefault
    ELSE LET rest == ViewPermissions(SubSeq(v, 1, Len(v) - 1))
             e    == v[Len(v)]
         IN  CASE e.kind = "Read"  -> Add(rest, PushRead(PermDefault, e.id))
               [] e.kind = "Write" -> Add(rest, Push(PermDefault, e.id))
               [] OTHER            -> Add(rest, PermDefault)

RECURSIVE resource_permissions(_)
RECURSIVE TupleResourcePermissions(_, _)
\* impl_data!: a = default; for each element, a.add(its resource_permissions())
TupleResourcePermissions(a, es) ==
    IF es = <<>> THEN a
    ELSE TupleResourcePermissions(Add(a, resource_permissions(Head(es))), Tail(es))

\* SystemData::resource_permissions
resource_permissions(d) ==
    CASE d.kind = "Read"  -> PushRead(PermDefault, d.id)
      [] d.kind = "Write" -> Push(PermDefault, d.id)
      [] d.kind = "Tuple" -> TupleResourcePermissions(PermDefault, d.elems)
      [] OTHER            -> PermDefault

RECURSIVE component_permissions(_)
RECURSIVE TupleComponentPermissions(_, _)
\* impl_data!: a = default; for each element, a.add(its component_permissions())
TupleComponentPermissions(a, es) ==
    IF es = <<>> THEN a
    ELSE TupleComponentPermissions(Add(a, component_permissions(Head(es))), Tail(es))

\* SystemData::component_permissions
component_permissions(d) ==
    CASE d.kind = "Query" -> ViewPermissions(d.view)
      [] d.kind = "Tuple" -> TupleComponentPermissions(PermDefault, d.elems)
      [] OTHER            -> PermDefault

----------------------------------------------------------------------------
(* Archetype filter *)

RECURSIVE filter_archetypes(_, _, _)
RECURSIVE TupleFilterArchetypes(_, _, _)
\* impl_data!: each element's filter_archetypes(world, bitset), in order
TupleFilterArchetypes(es, w, bitset) ==
    IF es = <<>> THEN bitset
    ELSE TupleFilterArchetypes(Tail(es), w, filter_archetypes(Head(es), w, bitset))

\* a filter that appends the matching archetypes after the entries it holds
LeafFilterAppends(d, w, bitset) ==
    IF d.kind = "Query"
    THEN bitset \cup {Cardinality(bitset) + i : i \in {j \in 1..Len(w) : d.has \subseteq w[j]}}
    ELSE bitset

\* SystemData::filter_archetypes as (), Read, Write and Query have it: the
\* trait's default, an empty body, which none of them overrides
LeafFilterArchetypes(d, w, bitset) == bitset

\* SystemData::filter_archetypes: the bitset it leaves behind
filter_archetypes(d, w, bitset) ==
    IF d.kind = "Tuple" THEN TupleFilterArchetypes(d.elems, w, bitset)
    ELSE LeafFilterArchetypes(d, w, bitset)

----------------------------------------------------------------------------
(* Systems *)

\* what a System's run touches when it is invoked: <<"mut" | "ref", component>>
TestSystemLogic == {<<"mut", "Position">>, <<"ref", "Velocity">>}

\* TestSystem::SystemData
TestSystemData ==
    Tuple(<< Query(<<Write("Position")>>, {"Position"}),
             Query(<<Entity, Read("Velocity")>>, {"Position"}),
             Read("TestResourceA"),
             Write("TestResourceB") >>)

\* the declaration of the "update positions" system
PositionUpdateData ==
    Tuple(<< Query(<<Write("Position"), Read("Velocity")>>, {"Position", "Velocity"}) >>)

\* The systems the adapters are built from: a declaration and the logic it wraps.
SystemTypes ==
    { [data |-> TestSystemData, logic |-> TestSystemLogic],
      [data |-> PositionUpdateData, logic |-> {<<"mut", "Position">>, <<"ref", "Velocity">>}],
      [data |-> Tuple(<<Read("TestResourceA")>>), logic |-> {<<"mut", "Position">>}],
      [data |-> Tuple(<<Read("TestResourceA"), Write("TestResourceA")>>), logic |-> {}],
      [data |-> Tuple(<<Query(<<Read("Position")>>, {"Position"})>>), logic |-> {<<"ref", "Position">>}],
      [data |-> Unit, logic |-> {}] }

NoSystem == [name |-> "none"]

Registered == {s \in SysIds : systems[s] # NoSystem}

\* World archetype layouts
Layouts == (SUBSET ComponentIds) \ {{}}

\* archetype indices of a world
ArchetypeIds(w) == 1..Len(w)

----------------------------------------------------------------------------
(* Operations *)

Init ==
    /\ systems = [s \in SysIds |-> NoSystem]
    /\ world = <<>>
    /\ resources = {}
    /\ last = [op |-> "none", sys |-> 0, ret |-> "none"]

\* new that takes a system to access all archetypes
newAccessAll(ty) ==
    [ name           |-> "test",
      data           |-> ty.data,
      archetypes     |-> [tag |-> "All"],
      access         |-> [ resources  |-> resource_permissions(ty.data),
                           components |-> component_permissions(ty.data) ],
      command_buffer |-> <<>>,
      system         |-> ty.logic ]

\* SystemWrapper::new
new(ty) ==
    [ name           |-> "test",
      data           |-> ty.data,
      archetypes     |-> [tag |-> "Some", bitset |-> {}],
      access         |-> [ resources  |-> resource_permissions(ty.data),
                           components |-> component_permissions(ty.data) ],
      command_buffer |-> <<>>,
      system         |-> ty.logic ]

\* Schedule::builder().add_system(SystemWrapper::new(system)): the builder
\* appends, so the adapter takes the first free place
AddSystem(ty) ==
    /\ Registered # SysIds
    /\ LET s == Cardinality(Registered) + 1
       IN  /\ systems' = [systems EXCEPT ![s] = new(ty)]
           /\ last' = [op |-> "new", sys |-> s, ret |-> "Ok"]
    /\ UNCHANGED <<world, resources>>

\* resources.insert(value)
Insert(r) ==
    /\ resources' = resources \cup {r}
    /\ last' = [op |-> "insert", sys |-> 0, ret |-> "none"]
    /\ UNCHANGED <<systems, world>>

\* world.extend(entities of one layout): the layout's archetype is created
\* when the world has none yet; ret tells whether it was
Extend(layout) ==
    LET known == \E i \in ArchetypeIds(world) : world[i] = layout
    IN  /\ known \/ Len(world) < MaxArchetypes
        /\ world' = IF known THEN world ELSE Append(world, layout)
        /\ last' = [op |-> "extend", sys |-> 0, ret |-> ~known]
        /\ UNCHANGED <<systems, resources>>

\* prepare that also rebuilds the adapter's access from nothing
prepareClearsAccess(s) ==
    /\ systems[s] # NoSystem
    /\ systems' = [systems EXCEPT ![s].access =
                      [resources |-> PermDefault, components |-> PermDefault]]
    /\ last' = [op |-> "prepare", sys |-> s,
                ret |-> (last.op = "prepare" /\ last.sys = s)]
    /\ UNCHANGED <<world, resources>>

\* Runnable::prepare; ret tells whether the call before it was a prepare of
\* the same adapter
prepare(s) ==
    /\ systems[s] # NoSystem
    /\ systems' = [systems EXCEPT ![s].archetypes =
                      IF systems[s].archetypes.tag = "Some"
                      THEN [ tag    |-> "Some",
                             bitset |-> filter_archetypes(systems[s].data, world,
                                                          systems[s].archetypes.bitset) ]
                      ELSE systems[s].archetypes]
    /\ last' = [op |-> "prepare", sys |-> s,
                ret |-> (last.op = "prepare" /\ last.sys = s)]
    /\ UNCHANGED <<world, resources>>

\* Runnable::accesses_archetypes
accesses_archetypes(s) == systems[s].archetypes

\* Runnable::name
name(s) == systems[s].name

\* Runnable::reads
reads(s) == [ resources  |-> Reads(systems[s].access.resources),
              components |-> Reads(systems[s].access.components) ]

\* Runnable::writes
writes(s) == [ resources  |-> Writes(systems[s].access.resources),
               components |-> Writes(systems[s].access.components) ]

\* what Runnable::command_buffer_mut(world) returns: HashMap::get_mut
command_buffer_get(s, w) ==
    IF w \in DOMAIN systems[s].command_buffer
    THEN <<"Some", systems[s].command_buffer[w]>>
    ELSE <<"None">>

\* Runnable::command_buffer_mut
command_buffer_mut(s) ==
    /\ systems[s] # NoSystem
    /\ last' = [op |-> "command_buffer_mut", sys |-> s,
                ret |-> command_buffer_get(s, TheWorld)]
    /\ UNCHANGED <<systems, world, resources>>

\* what one run_unsafe call reports and how often it called System::run: the
\* body is empty, so it returns without fetching a resource, building the
\* SubWorld, creating a command buffer or calling System::run
RunOutcome(s) == [outcome |-> "Returned", invoked |-> 0]

\* run_unsafe that keeps one command buffer map for all adapters
run_unsafeSharedBuffers(s) ==
    /\ systems[s] # NoSystem
    /\ systems' = [o \in SysIds |->
                      IF systems[o] = NoSystem THEN NoSystem
                      ELSE [systems[o] EXCEPT !.command_buffer = [w \in {TheWorld} |-> s]]]
    /\ last' = [op |-> "run", sys |-> s, ret |-> [outcome |-> "Returned", invoked |-> 1]]
    /\ UNCHANGED <<world, resources>>

\* Runnable::run_unsafe
run_unsafe(s) ==
    /\ systems[s] # NoSystem
    /\ last' = [op |-> "run", sys |-> s, ret |-> RunOutcome(s)]
    /\ UNCHANGED <<systems, world, resources>>

Next ==
    \/ \E ty \in SystemTypes : AddSystem(ty)
    \/ \E r \in ResourceIds : Insert(r)
    \/ \E l \in Layouts : Extend(l)
    \/ \E s \in SysIds : prepare(s)
    \/ \E s \in SysIds : command_buffer_mut(s)
    \/ \E s \in SysIds : run_unsafe(s)

Spec == Init /\ [][Next]_vars

----------------------------------------------------------------------------
(* Permission sets of every declaration shape *)

LeafDecls ==
    {Unit}
    \cup {Read(t) : t \in ResourceIds}
    \cup {Write(t) : t \in ResourceIds}
    \cup { Query(<<Write("Position")>>, {"Position"}),
           Query(<<Entity, Read("Velocity")>>, {"Position"}),
           Query(<<Read("Position")>>, {"Position"}) }

\* tuples of leaves of arity 1..n
FlatTuples(n) == {Tuple(es) : es \in UNION {[1..k -> LeafDecls] : k \in 1..n}}

\* pairs of a tuple and a leaf or one-element tuple, in either order
NestedTuples ==
    LET A == FlatTuples(MaxInner)
        B == LeafDecls \cup FlatTuples(1)
    IN  {Tuple(<<a, b>>) : a \in A, b \in B} \cup {Tuple(<<b, a>>) : a \in A, b \in B}

AllDecls == LeafDecls \cup FlatTuples(MaxArity) \cup NestedTuples

\* a system of every declaration shape is wrapped, one at a time
PermNext ==
    /\ Registered = {}
    /\ \E d \in AllDecls : AddSystem([data |-> d, logic |-> {}])

SpecPerm == Init /\ [][PermNext]_vars

RECURSIVE LeavesOf(_)
\* the declarations a declaration is made of, tuples opened up
LeavesOf(d) ==
    IF d.kind = "Tuple" THEN UNION {LeavesOf(d.elems[i]) : i \in DOMAIN d.elems}
    ELSE {d}

C2_TupleUnion ==
    \A s \in Registered :
        LET d  == systems[s].data
            es == IF d.kind = "Tuple" THEN {d.elems[i] : i \in DOMAIN d.elems} ELSE {}
            ls == LeavesOf(d)
        IN  d.kind = "Tuple" =>
              /\ reads(s).resources  = UNION {Reads(resource_permissions(e)) : e \in es}
              /\ writes(s).resources = UNION {Writes(resource_permissions(e)) : e \in es}
              /\ reads(s).components  = UNION {Reads(component_permissions(e)) : e \in es}
              /\ writes(s).components = UNION {Writes(component_permissions(e)) : e \in es}
              /\ reads(s).resources  = UNION {Reads(resource_permissions(l)) : l \in ls}
              /\ writes(s).resources = UNION {Writes(resource_permissions(l)) : l \in ls}
              /\ reads(s).components  = UNION {Reads(component_permissions(l)) : l \in ls}
              /\ writes(s).components = UNION {Writes(component_permissions(l)) : l \in ls}

\* an adapter built from a nested tuple of declarations with pairwise
\* disjoint identities, reading and writing in both categories
C2_Witness ==
    \E s \in Registered :
        /\ systems[s].data =
              Tuple(<< Tuple(<<Read("TestResourceA"), Write("TestResourceB")>>),
                       Query(<<Entity, Read("Velocity")>>, {"Position"}) >>)
        /\ reads(s).resources = {"TestResourceA", "TestResourceB"}
        /\ writes(s).resources = {"TestResourceB"}
        /\ reads(s).components = {"Velocity"}

----------------------------------------------------------------------------
(* Registration *)

\* the identities a tuple declares both Read and Write for, as siblings
ConflictIds(d) ==
    IF d.kind # "Tuple" THEN {}
    ELSE {t \in ResourceIds :
            /\ \E i \in DOMAIN d.elems : d.elems[i] = Read(t)
            /\ \E i \in DOMAIN d.elems : d.elems[i] = Write(t)}

----------------------------------------------------------------------------
(* Archetype filter of an adapter *)

\* the queries of a declaration
QueriesOf(d) == {l \in LeavesOf(d) : l.kind = "Query"}

\* an archetype layout matches a system's predicate: one of its queries
\* requires only components the layout has
MatchesSystem(d, layout) == \E q \in QueriesOf(d) : q.has \subseteq layout

\* the archetypes of the world that match a system's predicate
Matching(d, w) == {i \in ArchetypeIds(w) : MatchesSystem(d, w[i])}

\* C5: right after prepare(world), accessed_archetypes() holds exactly the
\* archetypes of the world that match the system's query predicate.
C5_FilterExact ==
    last.op = "prepare" =>
        accesses_archetypes(last.sys) =
            [tag |-> "Some", bitset |-> Matching(systems[last.sys].data, world)]

\* C6: an archetype created by the call just before prepare(world), if it
\* matches the system's predicate, is in accessed_archetypes() after that
\* prepare; and accessed_archetypes() changes in no step but a prepare of
\* its own adapter.
C6_NewArchetypeSeen ==
    [][ \A s \in SysIds :
          /\ ( /\ last.op = "extend" /\ last.ret = TRUE
               /\ last'.op = "prepare" /\ last'.sys = s
               /\ MatchesSystem(systems[s].data, world[Len(world)]) )
             => Len(world) \in systems'[s].archetypes.bitset
          /\ ( /\ systems[s] # NoSystem
               /\ systems'[s].archetypes # systems[s].archetypes )
             => (last'.op = "prepare" /\ last'.sys = s)
      ]_vars

\* C9: a prepare(world) that directly follows a prepare(world) of the same
\* adapter leaves accessed_archetypes() as the first one left it.
C9_PrepareIdempotent ==
    [][ \A s \in SysIds :
          (last'.op = "prepare" /\ last'.sys = s /\ last'.ret = TRUE)
          => systems'[s].archetypes = systems[s].archetypes
      ]_vars

\* an adapter with a query was prepared twice in a row against a world that
\* holds an archetype matching the query
C9_Witness ==
    /\ last.op = "prepare" /\ last.ret = TRUE
    /\ Matching(systems[last.sys].data, world) # {}

----------------------------------------------------------------------------
(* Running an adapter *)

\* C7: after an adapter's run against a world, command_buffer_mut(world)
\* returns a buffer, and a buffer once present for a world is never removed
\* or replaced.
C7_BufferPersists ==
    [][ /\ last'.op = "run" =>
              TheWorld \in DOMAIN systems'[last'.sys].command_buffer
        /\ \A s \in SysIds :
              (systems[s] # NoSystem /\ TheWorld \in DOMAIN systems[s].command_buffer)
              => /\ TheWorld \in DOMAIN systems'[s].command_buffer
                 /\ systems'[s].command_buffer[TheWorld] = systems[s].command_buffer[TheWorld]
      ]_vars

\* the component accesses of a logic that its adapter's declaration does not cover
Undeclared(s) ==
    {a \in systems[s].system :
        \/ a[1] = "mut" /\ a[2] \notin writes(s).components
        \/ a[1] = "ref" /\ a[2] \notin reads(s).components}

MissingResources(s) ==
    (reads(s).resources \cup writes(s).resources) \ resources

\* C10: the run of a system that declares a resource with no registered
\* value fails with ResourceMissing without calling the wrapped logic, and
\* leaves every other adapter as it was.
C10_ResourceMissing ==
    [][ \A s \in SysIds :
          (last'.op = "run" /\ last'.sys = s /\ MissingResources(s) # {})
          => /\ last'.ret.outcome = "ResourceMissing"
             /\ last'.ret.invoked = 0
             /\ \A o \in SysIds \ {s} : systems'[o] = systems[o]
      ]_vars

----------------------------------------------------------------------------
(* The adapter over the passes *)

\* C11: every run(world, resources) call invokes the wrapped System::run
\* exactly once before the adapter is idle again.
C11_RunInvokesOnce ==
    last.op = "run" => last.ret.invoked = 1

\* a declaration without component clauses: it holds no query
ResourceOnly(d) == QueriesOf(d) = {}

\* C12 as the specification states it: the adapter of a system without
\* component clauses has accessed_archetypes() = All in every state.
C12_AsStated ==
    \A s \in Registered :
        ResourceOnly(systems[s].data) => accesses_archetypes(s).tag = "All"

\* C12, amended: the adapter of a system without component clauses has
\* accessed_archetypes() = Some(the empty bitset) in every state, never the
\* sentinel All.
C12_ResourceOnlyEmpty ==
    \A s \in Registered :
        ResourceOnly(systems[s].data) =>
            accesses_archetypes(s) = [tag |-> "Some", bitset |-> {}]

\* the adapter of a system that declares only resources has been prepared
\* against a world that holds archetypes
C12_Witness ==
    /\ last.op = "prepare"
    /\ systems[last.sys].data = Tuple(<<Read("TestResourceA")>>)
    /\ Len(world) > 0

C14_AdaptersPrivate ==
    [][ \A s \in SysIds :
          (last'.op \in {"prepare", "run"} /\ last'.sys = s)
          => \A o \in Registered \ {s} :
                /\ systems'[o].archetypes = systems[o].archetypes
                /\ systems'[o].command_buffer = systems[o].command_buffer
      ]_vars

\* one adapter was run while another adapter, with queries of its own, was
\* registered too
C14_Witness ==
    /\ last.op = "run"
    /\ \E o \in Registered \ {last.sys} : QueriesOf(systems[o].data) # {}

\* C15: name, reads() and writes() of an adapter are those of its
\* declaration from its construction on: no later call changes them.
C15_MetadataFixed ==
    [][ \A s \in Registered :
          /\ systems'[s].name = systems[s].name
          /\ Reads(systems'[s].access.resources) = reads(s).resources
          /\ Reads(systems'[s].access.components) = reads(s).components
          /\ Writes(systems'[s].access.resources) = writes(s).resources
          /\ Writes(systems'[s].access.components) = writes(s).components
      ]_vars

\* an adapter that reads and writes in both categories was prepared and
\* then run
C15_Witness ==
    /\ last.op = "run"
    /\ systems[last.sys].data = TestSystemData
    /\ reads(last.sys).resources # {} /\ writes(last.sys).components # {}

====
